---- MODULE Spec2Model ----
(***************************************************************************)
(* Model of build_grammars.py: a command-line indexer that extracts the    *)
(* function / method / constructor declarations of one source file, embeds *)
(* their texts, upserts them into a persistent vector collection and runs  *)
(* one similarity query per declaration.                                   *)
(*                                                                         *)
(* One process runs at a time; the collection (store) survives from one    *)
(* process to the next, everything else is per process.                    *)
(***************************************************************************)
EXTENDS Integers, Sequences, FiniteSets

\* ------------------------------------------------------------------ bounds

\* Number of times the script is invoked against the same vector_db directory.
MaxRuns == 2

\* Largest number of declarations the syntax-tree query matches in one file.
MaxDecls == 2

\* ------------------------------------------------------- program constants

\* n_results of the similarity query.
NResults == 3

\* ------------------------------------------------------------------ inputs

Script == "build_grammars.py"

\* The paths given on the command line.
Paths == {"m.py", "M.PY", "m.java", "m.txt"}

\* sys.argv: the script name followed by zero, one or two arguments.
Argvs ==
    {<<Script>>} \cup {<<Script, p>> : p \in Paths} \cup {<<Script, "m.py", "m.java">>}

\* 0-based rows at which a declaration node may start: Python functions on
\* the first two lines, Java members side by side on the first line.
Rows(language) == IF language = "python" THEN {0, 1} ELSE {0}

\* The source texts a declaration node may span, per grammar.
PyTexts == {"def f(): pass", "def f(): (newline) return 1", "def (): pass"}
JavaTexts == {"void f(){}", "void f(int a){}", "A(){}"}

NoNode == "None"

\* The node type the grammar gives the text.
TypeOfText(t) ==
    CASE t \in PyTexts -> "function_definition"
      [] t = "A(){}" -> "constructor_declaration"
      [] OTHER -> "method_declaration"

\* The text of the node's "name" field, NoNode when the node has none.
NameOfText(t) ==
    CASE t \in {"def f(): pass", "def f(): (newline) return 1"} -> "f"
      [] t \in {"void f(){}", "void f(int a){}"} -> "f"
      [] t = "A(){}" -> "A"
      [] OTHER -> NoNode

\* Number of line breaks inside the text.
NewlinesIn(t) == IF t = "def f(): (newline) return 1" THEN 1 ELSE 0

\* A syntax-tree node matched by the declaration query.
Node(t, row) ==
    [type |-> TypeOfText(t), name |-> NameOfText(t), start_row |-> row,
     end_row |-> row + NewlinesIn(t), text |-> t]

NodesOf(language) ==
    {Node(t, r) : t \in (IF language = "python" THEN PyTexts ELSE JavaTexts),
                  r \in Rows(language)}

\* The matches of a file, in source order.  Two Java members may start on the
\* same row; two Python function definitions start on different rows.
InSourceOrder(language, s) ==
    \A k \in 1..(Len(s) - 1) :
        IF language = "python" THEN s[k].start_row < s[k + 1].start_row
                           ELSE s[k].start_row <= s[k + 1].start_row

Trees(language) ==
    UNION {{s \in [1..n -> NodesOf(language)] : InSourceOrder(language, s)} :
              n \in 0..MaxDecls}

\* ------------------------------------------------------------------- state

VARIABLES
    store,          \* the items of collection "project_code" (persistent)
    store0,         \* the items when the current process started
    runs,           \* processes started so far
    pc,             \* position of the current process
    argv,           \* sys.argv
    file_exists,    \* whether the path named by argv[1] exists on disk
    lang,           \* result of detect_lang
    buf,            \* matched nodes of the file read by load_bytes
    elements,       \* result of extract_code_elements
    embeddings,     \* result.embeddings
    i,              \* index of the query loop
    similar_items,  \* result of the last query
    query_embedding,\* vector of the last query
    printed,        \* items printed by format_query_results for the last query
    steps,          \* external calls the current process has made
    outcome,        \* what the current process reported
    exit_status     \* process exit status, NoStatus while running

vars == <<store, store0, runs, pc, argv, file_exists, lang, buf, elements,
          embeddings, i, similar_items, query_embedding, printed, steps, outcome, exit_status>>

\* exit_status of a process that has not ended.
NoStatus == 0 - 1

NoLang == "None"

\* ----------------------------------------------------------- pure functions

\* Path.suffix
Suffix(path) ==
    CASE path = "m.py" -> ".py"
      [] path = "M.PY" -> ".PY"
      [] path = "m.java" -> ".java"
      [] path = "m.txt" -> ".txt"

\* str.lower on a suffix
Lower(s) == IF s = ".PY" THEN ".py" ELSE s

\* detect_lang with the fall-through returning a language.
detect_lang_fallthrough(path) ==
    LET ext == Lower(Suffix(path)) IN
    IF ext = ".java" THEN "java" ELSE "python"

detect_lang(path) ==
    LET ext == Lower(Suffix(path)) IN
    IF ext = ".py" THEN "python"
    ELSE IF ext = ".java" THEN "java"
    ELSE NoLang

\* kind_map.get(d.type, d.type)
kind_map(language, type) ==
    IF language = "python"
    THEN (IF type = "function_definition" THEN "function" ELSE type)
    ELSE (CASE type = "method_declaration" -> "method"
            [] type = "constructor_declaration" -> "constructor"
            [] OTHER -> type)

\* The dict appended to items for one matched node.
Item(language, d) ==
    [name |-> IF d.name # NoNode THEN d.name ELSE "<no-name>",
     kind |-> kind_map(language, d.type),
     start_line |-> d.start_row + 1,
     end_line |-> d.end_row + 1,
     text |-> d.text]

\* The items list built by the loop over query.matches(root).
ExtractItems(language, tree) == [k \in 1..Len(tree) |-> Item(language, tree[k])]

\* The vector the embedding service returns for a text (one number stands for
\* the vector; equal texts get equal vectors).
Embed(t) ==
    CASE t = "def f(): pass" -> 0
      [] t = "def f(): (newline) return 1" -> 2
      [] t = "def (): pass" -> 3
      [] t = "void f(){}" -> 7
      [] t = "void f(int a){}" -> 8
      [] t = "A(){}" -> 11

\* result.embeddings: one vector per payload, in payload order.
EmbedBatch(payloads) == [k \in 1..Len(payloads) |-> Embed(payloads[k])]

\* f"{target_path}:{el['name']}:{el['start_line']}"; the three parts are kept
\* apart, as neither a name nor a line number holds a colon.
MakeId(target_path, el) == <<target_path, el.name, el.start_line>>

MakeMetadata(target_path, el) ==
    [file_path |-> target_path, function_name |-> el.name, kind |-> el.kind,
     start_line |-> el.start_line, end_line |-> el.end_line]

\* The metadatas comprehension reading one element for every position.
Metadatas_first(target_path, els) ==
    [k \in 1..Len(els) |-> MakeMetadata(target_path, els[1])]

\* The ids, metadatas and documents lists of main, one entry per element.
Ids(target_path, els) ==
    [k \in 1..Len(els) |-> MakeId(target_path, els[k])]

Metadatas(target_path, els) ==
    [k \in 1..Len(els) |-> MakeMetadata(target_path, els[k])]

Documents(els) ==
    [k \in 1..Len(els) |-> els[k].text]

Range(s) == {s[k] : k \in 1..Len(s)}

\* The collection rejects a batch that names one id twice.
HasDuplicates(ids) == \E a, b \in 1..Len(ids) : a # b /\ ids[a] = ids[b]

\* collection.add in place of upsert: rows are added, none is replaced.
Upsert_add(st, ids, embs, docs, metas) ==
    st \cup {[id |-> ids[k], embedding |-> embs[k], document |-> docs[k],
              metadata |-> metas[k]] : k \in 1..Len(ids)}

\* code_collection.upsert: every row whose id is in the batch is replaced,
\* every other id of the batch is inserted.
Upsert(st, ids, embs, docs, metas) ==
    {r \in st : r.id \notin Range(ids)}
        \cup {[id |-> ids[k], embedding |-> embs[k], document |-> docs[k],
               metadata |-> metas[k]] : k \in 1..Len(ids)}

\* Squared L2 distance, the collection's default metric.
Distance(a, b) == (a - b) * (a - b)

Min(a, b) == IF a < b THEN a ELSE b

\* code_collection.query: the n nearest rows, nearest first.  Rows at the same
\* distance come in whatever order the index yields.
QueryResults(st, q, n) ==
    LET len == Min(n, Cardinality(st)) IN
    {s \in [1..len -> st] :
        /\ \A a, b \in 1..len : a < b =>
               /\ s[a] # s[b]
               /\ Distance(s[a].embedding, q) <= Distance(s[b].embedding, q)
        /\ \A r \in st : r \notin Range(s) =>
               \A a \in 1..len : Distance(s[a].embedding, q) <= Distance(r.embedding, q)}

\* format_query_results: the items it prints.
format_query_results(results) ==
    IF Len(results) < 2 THEN <<>> ELSE SubSeq(results, 2, Len(results))

\* Exit status per way of ending: sys.exit(n), a return from main, or an
\* exception nobody catches.
ExitCode(how) ==
    CASE how = "init_failed" -> 1
      [] how = "file_not_found" -> 1
      [] how = "unsupported" -> 2
      [] how = "usage" -> 3
      [] how = "uncaught_exception" -> 1
      [] OTHER -> 0

\* ----------------------------------------------------------------- actions

NoVector == 0 - 1

Init ==
    /\ store = {}
    /\ store0 = {}
    /\ runs = 0
    /\ pc = "idle"
    /\ argv = <<Script>>
    /\ file_exists = FALSE
    /\ lang = NoLang
    /\ buf = <<>>
    /\ elements = <<>>
    /\ embeddings = <<>>
    /\ i = 0
    /\ similar_items = <<>>
    /\ query_embedding = NoVector
    /\ printed = <<>>
    /\ steps = {}
    /\ outcome = "none"
    /\ exit_status = NoStatus

\* The process ends: what it reported and its exit status.
End(how) ==
    /\ pc' = "done"
    /\ outcome' = how
    /\ exit_status' = ExitCode(how)

target_path == argv[2]

\* A new process starts and runs the module-level statements: the embedding
\* client is built (exit 1 when that raises), the collection is opened.
ModuleInit ==
    /\ pc \in {"idle", "done"}
    /\ runs < MaxRuns
    /\ \E a \in Argvs, ex \in BOOLEAN, client_ok \in BOOLEAN :
          /\ (Len(a) # 2 => ex = FALSE)
          /\ argv' = a
          /\ file_exists' = ex
          /\ IF client_ok
             THEN pc' = "main" /\ outcome' = "none" /\ exit_status' = NoStatus
             ELSE End("init_failed")
    /\ runs' = runs + 1
    /\ store0' = store
    /\ lang' = NoLang
    /\ buf' = <<>>
    /\ elements' = <<>>
    /\ embeddings' = <<>>
    /\ i' = 0
    /\ similar_items' = <<>>
    /\ query_embedding' = NoVector
    /\ printed' = <<>>
    /\ steps' = {}
    /\ UNCHANGED store

\* main: the argument count check.
main_args ==
    /\ pc = "main"
    /\ IF Len(argv) # 2
       THEN End("usage")
       ELSE pc' = "detect" /\ UNCHANGED <<outcome, exit_status>>
    /\ UNCHANGED <<store, store0, runs, argv, file_exists, lang, buf, elements,
                   embeddings, i, similar_items, query_embedding, printed, steps>>

\* extract_code_elements: detect_lang and the unsupported-type exit.
extract_detect ==
    /\ pc = "detect"
    /\ lang' = detect_lang(target_path)
    /\ IF lang' = NoLang
       THEN End("unsupported")
       ELSE pc' = "lookup" /\ UNCHANGED <<outcome, exit_status>>
    /\ UNCHANGED <<store, store0, runs, argv, file_exists, buf, elements,
                   embeddings, i, similar_items, query_embedding, printed, steps>>

\* extract_code_elements: get_language(lang) and get_parser(lang).
extract_lookup ==
    /\ pc = "lookup"
    /\ steps' = steps \cup {"get_language", "get_parser"}
    /\ pc' = "load"
    /\ UNCHANGED <<store, store0, runs, argv, file_exists, lang, buf, elements,
                   embeddings, i, similar_items, query_embedding, printed,
                   outcome, exit_status>>

\* load_bytes: the file's bytes, or exit 1 when the path does not exist.
load_bytes ==
    /\ pc = "load"
    /\ IF file_exists
       THEN /\ \E tree \in Trees(lang) : buf' = tree
            /\ steps' = steps \cup {"read_bytes"}
            /\ pc' = "parse"
            /\ UNCHANGED <<outcome, exit_status>>
       ELSE /\ End("file_not_found")
            /\ UNCHANGED <<buf, steps>>
    /\ UNCHANGED <<store, store0, runs, argv, file_exists, lang, elements,
                   embeddings, i, similar_items, query_embedding, printed>>

\* extract_code_elements: parse, run the declaration query, build the items.
extract_parse ==
    /\ pc = "parse"
    /\ steps' = steps \cup {"parse"}
    /\ elements' = ExtractItems(lang, buf)
    /\ pc' = "check"
    /\ UNCHANGED <<store, store0, runs, argv, file_exists, lang, buf,
                   embeddings, i, similar_items, query_embedding, printed,
                   outcome, exit_status>>

\* main without the early return on an empty element list.
main_check_no_return ==
    /\ pc = "check"
    /\ pc' = "embed"
    /\ UNCHANGED <<store, store0, runs, argv, file_exists, lang, buf, elements,
                   embeddings, i, similar_items, query_embedding, printed, steps,
                   outcome, exit_status>>

\* main: nothing to index when extraction found no declaration.
main_check ==
    /\ pc = "check"
    /\ IF elements = <<>>
       THEN End("none_found")
       ELSE pc' = "embed" /\ UNCHANGED <<outcome, exit_status>>
    /\ UNCHANGED <<store, store0, runs, argv, file_exists, lang, buf, elements,
                   embeddings, i, similar_items, query_embedding, printed, steps>>

\* main with the except branch printing the error and carrying on.
main_embed_no_return ==
    /\ pc = "embed"
    /\ \E raises \in BOOLEAN :
          steps' = steps \cup (IF raises THEN {"embed", "embed_raised"} ELSE {"embed"})
    /\ embeddings' = EmbedBatch(Documents(elements))
    /\ pc' = "upsert"
    /\ UNCHANGED <<store, store0, runs, argv, file_exists, lang, buf, elements,
                   i, similar_items, query_embedding, printed, outcome, exit_status>>

\* main, step 1: one embedding request for all texts; any exception is
\* printed and main returns.
main_embed ==
    /\ pc = "embed"
    /\ \E raises \in BOOLEAN :
          IF raises
          THEN /\ steps' = steps \cup {"embed", "embed_raised"}
               /\ End("embedding_error")
               /\ UNCHANGED embeddings
          ELSE /\ steps' = steps \cup {"embed"}
               /\ embeddings' = EmbedBatch(Documents(elements))
               /\ pc' = "upsert"
               /\ UNCHANGED <<outcome, exit_status>>
    /\ UNCHANGED <<store, store0, runs, argv, file_exists, lang, buf, elements,
                   i, similar_items, query_embedding, printed>>

\* main, step 2: ids, metadatas and documents are built and upserted in one
\* call; the exception of a rejected batch is caught nowhere.
main_upsert ==
    /\ pc = "upsert"
    /\ steps' = steps \cup {"upsert"}
    /\ LET ids == Ids(target_path, elements)
           metadatas == Metadatas(target_path, elements)
           documents == Documents(elements)
       IN IF HasDuplicates(ids)
          THEN /\ End("uncaught_exception")
               /\ UNCHANGED <<store, i>>
          ELSE /\ store' = Upsert(store, ids, embeddings, documents, metadatas)
               /\ IF embeddings # <<>>
                  THEN pc' = "query" /\ i' = 1 /\ UNCHANGED <<outcome, exit_status>>
                  ELSE End("ok") /\ UNCHANGED i
    /\ UNCHANGED <<store0, runs, argv, file_exists, lang, buf, elements,
                   embeddings, similar_items, query_embedding, printed>>

\* The query loop reading embeddings[0] on every pass.
main_query_first_embedding ==
    /\ pc = "query"
    /\ i <= Len(elements)
    /\ query_embedding' = embeddings[1]
    /\ \E r \in QueryResults(store, embeddings[1], NResults) :
          /\ similar_items' = r
          /\ printed' = format_query_results(r)
    /\ steps' = steps \cup {"query"}
    /\ i' = i + 1
    /\ IF i = Len(elements)
       THEN End("ok")
       ELSE UNCHANGED <<pc, outcome, exit_status>>
    /\ UNCHANGED <<store, store0, runs, argv, file_exists, lang, buf, elements,
                   embeddings>>

\* main, step 3: one pass of the loop over elements: query with the element's
\* own embedding and print the formatted result; main returns after the last.
main_query ==
    /\ pc = "query"
    /\ i <= Len(elements)
    /\ query_embedding' = embeddings[i]
    /\ \E r \in QueryResults(store, embeddings[i], NResults) :
          /\ similar_items' = r
          /\ printed' = format_query_results(r)
    /\ steps' = steps \cup {"query"}
    /\ i' = i + 1
    /\ IF i = Len(elements)
       THEN End("ok")
       ELSE UNCHANGED <<pc, outcome, exit_status>>
    /\ UNCHANGED <<store, store0, runs, argv, file_exists, lang, buf, elements,
                   embeddings>>

Next ==
    \/ ModuleInit
    \/ main_args
    \/ extract_detect
    \/ extract_lookup
    \/ load_bytes
    \/ extract_parse
    \/ main_check
    \/ main_embed
    \/ main_upsert
    \/ main_query

Spec == Init /\ [][Next]_vars

\* ------------------------------------------------------------------ claims

\* The id main gives the k-th element of the current process.
IdOf(k) == MakeId(target_path, elements[k])

\* The rows of a store that carry the id.
RowsWithId(st, id) == {r \in st : r.id = id}

\* The current process called upsert with a batch the collection accepted.
UpsertApplied ==
    /\ "upsert" \in steps
    /\ ~HasDuplicates(Ids(target_path, elements))

\* The element the last query was issued for.
Queried == i - 1

\* The ways of ending that the error taxonomy calls failures.
Failures == {"usage", "file_not_found", "unsupported", "init_failed", "embedding_error"}

\* C1: the store never holds two items under one id; a process that has not
\* upserted leaves the store as it found it, and once a process has upserted,
\* every id of its batch is held by exactly one item, whose document is the
\* text of this process, while the items under other ids are those the
\* process found.
C1_UpsertLastWriteWins ==
    /\ \A r1, r2 \in store : r1.id = r2.id => r1 = r2
    /\ ~UpsertApplied => store = store0
    /\ UpsertApplied =>
          /\ \A k \in 1..Len(elements) :
                 /\ Cardinality(RowsWithId(store, IdOf(k))) = 1
                 /\ \A r \in RowsWithId(store, IdOf(k)) : r.document = elements[k].text
          /\ {r \in store : r.id \notin Range(Ids(target_path, elements))}
                 = {r \in store0 : r.id \notin Range(Ids(target_path, elements))}

\* C1 witness: a later process has upserted text T2 under an id that held a
\* different text T1 when the process started.
C1_Witness ==
    /\ runs = 2
    /\ UpsertApplied
    /\ \E k \in 1..Len(elements) : \E r \in RowsWithId(store0, IdOf(k)) :
          r.document # elements[k].text

\* C2: when the embedding call raises, the process reports the embedding
\* error and ends; it calls neither upsert nor query and the stored items
\* are those it found.
C2_EmbedFailureSkipsRest ==
    "embed_raised" \in steps =>
        /\ pc = "done"
        /\ outcome = "embedding_error"
        /\ "upsert" \notin steps
        /\ "query" \notin steps
        /\ store = store0

\* C2 witness: the embedding call raised in a process that found a
\* non-empty store.
C2_Witness ==
    /\ "embed_raised" \in steps
    /\ pc = "done"
    /\ store0 # {}

\* C3: a process given one argument that names a missing path ends with the
\* file-not-found failure, without having looked up the language, built the
\* parser or parsed.
C3_MissingFileFailsBeforeParsing ==
    (pc = "done" /\ outcome # "init_failed" /\ Len(argv) = 2 /\ ~file_exists) =>
        /\ outcome = "file_not_found"
        /\ steps \cap {"get_language", "get_parser", "parse"} = {}

\* C4 as stated: a process given a path whose extension is neither ".py" nor
\* ".java" ends with the unsupported-file-type failure, having made no
\* external call and left the stored items alone.
C4_UnsupportedExtension_Exact ==
    (pc = "done" /\ outcome # "init_failed" /\ Len(argv) = 2
        /\ Suffix(target_path) \notin {".py", ".java"}) =>
        /\ outcome = "unsupported"
        /\ steps = {}
        /\ store = store0

\* C4 amended: a process whose embedding client initialised and whose path
\* has an extension that, lower-cased, is neither ".py" nor ".java" gets no
\* further than detect_lang: it ends with the unsupported-file-type failure
\* and exit status 2, reads no file, calls neither the embedding service,
\* upsert nor query, and leaves the stored items alone.
C4_UnsupportedExtension ==
    (Len(argv) = 2 /\ pc \notin {"main", "detect"} /\ outcome # "init_failed"
        /\ Lower(Suffix(target_path)) \notin {".py", ".java"}) =>
        /\ pc = "done"
        /\ outcome = "unsupported"
        /\ exit_status = 2
        /\ steps = {}
        /\ store = store0

\* C4 witness: a process given m.txt ended as unsupported next to a
\* non-empty store.
C4_Witness ==
    /\ pc = "done"
    /\ Len(argv) = 2
    /\ target_path = "m.txt"
    /\ outcome = "unsupported"
    /\ store0 # {}

\* C5: a process that ends successfully exits 0; a process that ends with a
\* failure of the taxonomy exits nonzero, with a status the program gives to
\* no other category of failure.
C5_ExitStatusByCategory ==
    pc = "done" =>
        /\ outcome \in {"ok", "none_found"} => exit_status = 0
        /\ outcome \in Failures =>
              /\ exit_status # 0
              /\ \A other \in Failures \ {outcome} : ExitCode(other) # exit_status

C7_PrintedIsResultMinusSelf ==
    similar_items # <<>> =>
        /\ \A k \in 1..Len(printed) : printed[k].id # IdOf(Queried)
        /\ \A k \in 1..Len(similar_items) :
              similar_items[k].id # IdOf(Queried) => similar_items[k] \in Range(printed)

\* C8: once extraction of a readable, supported file has yielded no
\* declaration, the process calls neither the embedding service, upsert nor
\* query and leaves the stored items alone, and past the check in main it
\* has ended, reporting "none found" with exit status 0.
C8_NoDeclarations ==
    ("parse" \in steps /\ elements = <<>>) =>
        /\ steps \cap {"embed", "upsert", "query"} = {}
        /\ store = store0
        /\ pc \in {"check", "done"}
        /\ pc = "done" => (outcome = "none_found" /\ exit_status = 0)

\* C8 witness: a process found no declaration and ended, next to a non-empty
\* store.
C8_Witness ==
    /\ "parse" \in steps
    /\ elements = <<>>
    /\ pc = "done"
    /\ outcome = "none_found"
    /\ store0 # {}

\* C9: after the upsert of a process, the item stored under the id of its
\* k-th declaration has that declaration's text as document, its name, kind
\* and lines (and the path) as metadata and the vector of its text as
\* embedding; and every query uses the vector of the declaration it is
\* issued for.
C9_IndexAlignment ==
    /\ UpsertApplied =>
          \A k \in 1..Len(elements) :
              /\ RowsWithId(store, IdOf(k)) # {}
              /\ \A r \in RowsWithId(store, IdOf(k)) :
                    /\ r.document = elements[k].text
                    /\ r.embedding = Embed(elements[k].text)
                    /\ r.metadata.file_path = target_path
                    /\ r.metadata.function_name = elements[k].name
                    /\ r.metadata.kind = elements[k].kind
                    /\ r.metadata.start_line = elements[k].start_line
                    /\ r.metadata.end_line = elements[k].end_line
    /\ similar_items # <<>> => query_embedding = Embed(elements[Queried].text)

\* C9 witness: a process with two declarations of different texts and
\* different line ranges has upserted and finished its queries.
C9_Witness ==
    /\ UpsertApplied
    /\ pc = "done"
    /\ outcome = "ok"
    /\ Len(elements) = 2
    /\ elements[1].text # elements[2].text
    /\ elements[1].end_line # elements[2].end_line

\* C10: two different declaration records of one process never get the same
\* id.
C10_IdsDistinct ==
    "parse" \in steps =>
        \A a, b \in 1..Len(elements) :
            elements[a] # elements[b] => IdOf(a) # IdOf(b)

====
